---- MODULE Spec2Model ----
(***************************************************************************)
(* feincmstools: registration of content types per region                  *)
(* (feincmstools/models.py, create_content_types), the legacy registration *)
(* of LumpyContent (base.py), the template resolution and rendering of     *)
(* Content chunks and the registration of a Document's regions             *)
(* (feincmstools/base.py), the view-backed content (models.py) and the     *)
(* metaclass of the reusable content types (base.py).                      *)
(***************************************************************************)
EXTENDS Naturals, Sequences, FiniteSets, TLC

\* Python's None. Every value it is compared with is a string.
None == "<None>"

(***************************************************************************)
(* Bounds of the model.                                                    *)
(***************************************************************************)
\* most content-type entries in all of a Document's region declarations
MaxEntries == 2
\* most runs of the registration of one Document class
MaxPasses == 2
\* most bases a content class lists
MaxBases == 2
\* most templates in the template backend at a time
MaxTemplates == 2

(***************************************************************************)
(* The inputs of the registration.                                         *)
(***************************************************************************)
\* the concrete Document classes and the module that defines each
Documents == {"Page", "Article"}

DocModule(doc) == IF doc = "Page" THEN "pages.models" ELSE "news.models"

Modules == {DocModule(d) : d \in Documents}

\* the abstract content types (their __name__)
ContentTypes == {"Text", "Image"}

\* category labels of content_types_by_region; None sorts first in the menu
Categories == {None, "Media"}

\* the keys of feincms_model._feincms_all_regions, in declared order
RegionKeys == <<"main", "sidebar">>

\* extra keyword arguments of a (type, kwargs) entry, as a set of items
SomeKwargs == {<<"TYPE_CHOICES", "wide">>}

\* An entry of a category's type list: a content type, or a (type, kwargs)
\* tuple or list.
ClassEntry(t) == [form |-> "class", cls |-> t]

TupleEntry(t, kw) == [form |-> "tuple", items |-> <<t, kw>>]

Entries ==
    {ClassEntry(t) : t \in ContentTypes} \cup {TupleEntry("Text", SomeKwargs)}

\* An entry of LumpyContent.default_content_types: a content type, or a
\* (type, regions) tuple or list.
LumpyEntries ==
    {ClassEntry(t) : t \in ContentTypes} \cup {TupleEntry("Image", {"main"})}

\* the default_content_types with exactly n entries
RECURSIVE LumpyTypeSeqs(_)
LumpyTypeSeqs(n) ==
    IF n = 0 THEN {<<>>}
    ELSE {<<e>> \o s : e \in LumpyEntries, s \in LumpyTypeSeqs(n - 1)}

\* the type lists with exactly n entries
RECURSIVE TypeSeqs(_)
TypeSeqs(n) ==
    IF n = 0 THEN {<<>>}
    ELSE {<<e>> \o s : e \in Entries, s \in TypeSeqs(n - 1)}

\* the lists of (category, types) with exactly w entries in all; a category
\* lists at least one type
RECURSIVE CategorySeqs(_)
CategorySeqs(w) ==
    IF w = 0 THEN {<<>>}
    ELSE UNION {{<<<<c, ts>>>> \o rest :
                    c \in Categories, ts \in TypeSeqs(k),
                    rest \in CategorySeqs(w - k)} : k \in 1..w}

\* what content_types_by_region returns for the regions from index i on, with
\* at most w entries in all
RECURSIVE RegionDecls(_, _)
RegionDecls(i, w) ==
    IF i > Len(RegionKeys) THEN {<<>>}
    ELSE UNION {{<<<<RegionKeys[i], cs>>>> \o rest :
                    cs \in CategorySeqs(k),
                    rest \in RegionDecls(i + 1, w - k)} : k \in 0..w}

VARIABLES
    base_class,         \* what the Document derives from: "FeinCMSDocument"
                        \* (feincmstools/base.py) or "LumpyContent" (base.py)
    default_content_types, \* LumpyContent.default_content_types
    USE_LEGACY_TABLE_NAMES, \* feincmstools.settings.USE_LEGACY_TABLE_NAMES
    hook,               \* "default": FeinCMSDocument._get_content_type_class_name;
                        \* "override": a subclass overrides it
    feincms_model,      \* the Document class being registered
    types_by_regions,   \* [(r.key, content_types_by_region(r.key)), ...]
    types_to_register,  \* the OrderedDict, as the sequence of its items
    pos,                \* how many (region, category, type) were merged
    it,                 \* how many items of types_to_register were created
    calls,              \* the create_content_type calls of this run, in order
    sys_modules,        \* sys.modules: module -> (attribute name -> value)
    pass,               \* runs of the registration started so far
    first_pass_modules, \* sys.modules as the first run left it
    pc                  \* "idle", "merge", "create", "lumpy", "done"

VARIABLES
    bases,              \* the class hierarchy: class -> its __bases__
    class_templates,    \* render_template and admin_template as set on the
                        \* chunk's class (None on Content)
    templates,          \* the template backend: the paths that exist
    chunk,              \* the chunk instance, once Content.__init__ has run
    editor_includes,    \* feincms_item_editor_includes of each Document class
                        \* and of the base class they share
    outcome             \* what the last call returned or raised

VARIABLES
    DEBUG,              \* django.conf.settings.DEBUG
    view                \* the view field of the ViewContent instance: a dotted
                        \* path, as the sequence of its characters

VARIABLES
    abstract,           \* cls._meta.abstract of the Document class
    feincms_regions,    \* cls.feincms_regions: not given (None), or a list
    feincms_templates,  \* cls.feincms_templates: not given (None), or a list
    default_regions,    \* LumpyContent.default_regions
    content_types_by_region, \* what cls.content_types_by_region returns for
                        \* each region key
    all_regions,        \* cls._feincms_all_regions, once it is set
    steps               \* what _register has called so far, in order

registrationVars ==
    <<base_class, default_content_types, USE_LEGACY_TABLE_NAMES, hook,
      feincms_model, types_by_regions, types_to_register, pos, it, calls,
      sys_modules, pass, first_pass_modules, pc>>

contentVars ==
    <<bases, class_templates, templates, chunk, editor_includes, outcome>>

viewVars == <<DEBUG, view>>

documentVars ==
    <<abstract, feincms_regions, feincms_templates, default_regions,
      content_types_by_region, all_regions, steps>>

\* what the registration leaves alone, and what a chunk leaves alone
besidesRegistration == <<contentVars, viewVars, documentVars>>

besidesContent == <<registrationVars, viewVars, documentVars>>

vars == <<registrationVars, contentVars, viewVars, documentVars>>

(***************************************************************************)
(* create_content_types: the merge of the declarations.                    *)
(***************************************************************************)
\* the triple loop of lines 19-21, as the sequence of its iterations
RECURSIVE TypeLoop(_, _, _)
TypeLoop(region, category, types) ==
    IF types = <<>> THEN <<>>
    ELSE <<[region |-> region, category |-> category, type |-> Head(types)]>>
         \o TypeLoop(region, category, Tail(types))

RECURSIVE CategoryLoop(_, _)
CategoryLoop(region, category_types) ==
    IF category_types = <<>> THEN <<>>
    ELSE TypeLoop(region, Head(category_types)[1], Head(category_types)[2])
         \o CategoryLoop(region, Tail(category_types))

RECURSIVE RegionLoop(_)
RegionLoop(tbr) ==
    IF tbr = <<>> THEN <<>>
    ELSE CategoryLoop(Head(tbr)[1], Head(tbr)[2]) \o RegionLoop(Tail(tbr))

\* lines 22-25: a list or tuple entry is (type, kwargs)
EntryType(e) == IF e.form = "tuple" THEN e.items[1] ELSE e.cls

EntryKwargs(e) == IF e.form = "tuple" THEN e.items[2] ELSE {}

\* type in types_to_register
Registered(reg, t) == \E i \in 1..Len(reg) : reg[i].type = t

\* Register without the test of line 26: every encounter adds an item
RegisterAlwaysAppend(reg, v) ==
    LET t == EntryType(v.type)
        reg1 == Append(reg, [type |-> t, category |-> v.category,
                             regions |-> {}, kwargs |-> EntryKwargs(v.type)])
    IN  [i \in 1..Len(reg1) |->
            IF reg1[i].type = t
            THEN [reg1[i] EXCEPT !.regions = @ \cup {v.region}]
            ELSE reg1[i]]

\* Register with line 28 inside the test of line 26: only the first
\* encounter adds its region
RegisterFirstRegionOnly(reg, v) ==
    LET t == EntryType(v.type)
    IN  IF Registered(reg, t) THEN reg
        ELSE Append(reg, [type |-> t, category |-> v.category,
                          regions |-> {v.region}, kwargs |-> EntryKwargs(v.type)])

\* Register without the test of line 26, as an assignment to the key: every
\* encounter sets the category and the kwargs
RegisterLastWins(reg, v) ==
    LET t == EntryType(v.type)
        reg1 == IF Registered(reg, t) THEN reg
                ELSE Append(reg, [type |-> t, category |-> v.category,
                                  regions |-> {}, kwargs |-> {}])
    IN  [i \in 1..Len(reg1) |->
            IF reg1[i].type = t
            THEN [reg1[i] EXCEPT !.regions = @ \cup {v.region},
                                 !.category = v.category,
                                 !.kwargs = EntryKwargs(v.type)]
            ELSE reg1[i]]

\* Register on a mapping that iterates the newest key first
RegisterNewestFirst(reg, v) ==
    LET t == EntryType(v.type)
        reg1 == IF Registered(reg, t) THEN reg
                ELSE <<[type |-> t, category |-> v.category,
                        regions |-> {}, kwargs |-> EntryKwargs(v.type)]>> \o reg
    IN  [i \in 1..Len(reg1) |->
            IF reg1[i].type = t
            THEN [reg1[i] EXCEPT !.regions = @ \cup {v.region}]
            ELSE reg1[i]]

\* lines 22-28: one iteration of the loop body on the OrderedDict reg
Register(reg, v) ==
    LET t == EntryType(v.type)
        kwargs == EntryKwargs(v.type)
        reg1 == IF Registered(reg, t) THEN reg
                ELSE Append(reg, [type |-> t, category |-> v.category,
                                  regions |-> {}, kwargs |-> kwargs])
    IN  [i \in 1..Len(reg1) |->
            IF reg1[i].type = t
            THEN [reg1[i] EXCEPT !.regions = @ \cup {v.region}]
            ELSE reg1[i]]

(***************************************************************************)
(* create_content_types: the creation of the concrete classes.             *)
(***************************************************************************)
\* the hook with the legacy name whatever the setting
GetLegacyClassName(doc, t) ==
    IF hook = "override" THEN t \o "Chunk" ELSE doc \o t

\* FeinCMSDocument._get_content_type_class_name, or a subclass's override
\* of the hook (here: a shorter name that leaves the Document's name out)
GetContentTypeClassName(doc, t) ==
    IF hook = "override" THEN t \o "Chunk"
    ELSE IF USE_LEGACY_TABLE_NAMES THEN doc \o t
    ELSE None

\* feincms_model.create_content_type: the host framework makes a new concrete
\* class, named class_name, or after the content type when class_name is None
CreateContentType(doc, t, class_name, n) ==
    [name |-> IF class_name = None THEN t ELSE class_name,
     model |-> t, document |-> doc, created |-> n]

\* Expose without the hasattr test of line 51
ExposeOverwrite(mods, module, new_content_type) ==
    [mods EXCEPT ![module] =
        [n \in DOMAIN @ \cup {new_content_type.name} |->
            IF n = new_content_type.name THEN new_content_type ELSE @[n]]]

\* lines 51-57: bind the new class in the module unless the name is taken
Expose(mods, module, new_content_type) ==
    IF new_content_type.name \in DOMAIN mods[module] THEN mods
    ELSE [mods EXCEPT ![module] = @ @@ (new_content_type.name :> new_content_type)]

\* the abstract content type Text is defined in pages.models, beside Page
InitModules ==
    [m \in Modules |->
        IF m = "pages.models"
        THEN ("Text" :> [name |-> "Text", model |-> "Text",
                         document |-> None, created |-> 0])
        ELSE <<>>]

\* base.py, lines 55-60: bind the new class under name unless name is taken
LumpyExpose(mods, module, name, new_content_type) ==
    IF name \in DOMAIN mods[module] THEN mods
    ELSE [mods EXCEPT ![module] = @ @@ (name :> new_content_type)]

\* no chunk class is defined and no chunk exists
NoContent ==
    /\ bases = <<>>
    /\ class_templates = [render |-> None, admin |-> None]
    /\ templates = {}
    /\ chunk = [exists |-> FALSE]
    /\ editor_includes = <<>>
    /\ outcome = [op |-> "none"]

\* no view-backed content exists
NoView ==
    /\ DEBUG = FALSE
    /\ view = <<>>

\* an attribute that is None, and one that is set to value
NotGiven == [given |-> FALSE, value |-> <<>>]

Given(value) == [given |-> TRUE, value |-> value]

\* the Document class declares nothing and _register has set nothing
NoDocument ==
    /\ abstract = FALSE
    /\ feincms_regions = NotGiven
    /\ feincms_templates = NotGiven
    /\ default_regions = <<>>
    /\ content_types_by_region = <<>>
    /\ all_regions = NotGiven
    /\ steps = <<>>

Init ==
    /\ NoContent
    /\ NoView
    /\ NoDocument
    /\ base_class \in {"FeinCMSDocument", "LumpyContent"}
    /\ USE_LEGACY_TABLE_NAMES \in BOOLEAN
    /\ hook \in {"default", "override"}
    /\ hook = "override" => ~USE_LEGACY_TABLE_NAMES
    /\ feincms_model \in Documents
    /\ IF base_class = "FeinCMSDocument"
       THEN /\ types_by_regions \in RegionDecls(1, MaxEntries)
            /\ default_content_types = <<>>
       ELSE /\ types_by_regions \in RegionDecls(1, 0)
            /\ default_content_types \in
                   UNION {LumpyTypeSeqs(n) : n \in 0..MaxEntries}
            /\ ~USE_LEGACY_TABLE_NAMES
            /\ hook = "default"
    /\ types_to_register = <<>>
    /\ pos = 0
    /\ it = 0
    /\ calls = <<>>
    /\ sys_modules = InitModules
    /\ pass = 0
    /\ first_pass_modules = InitModules
    /\ pc = "idle"

\* the metaclass calls _register, which calls create_content_types (line 12)
Start ==
    /\ UNCHANGED besidesRegistration
    /\ base_class = "FeinCMSDocument"
    /\ pc \in {"idle", "done"}
    /\ pass < MaxPasses
    /\ pass' = pass + 1
    /\ types_to_register' = <<>>
    /\ pos' = 0
    /\ it' = 0
    /\ calls' = <<>>
    /\ pc' = "merge"
    /\ UNCHANGED <<base_class, default_content_types,
                   USE_LEGACY_TABLE_NAMES, hook, feincms_model,
                   types_by_regions, sys_modules, first_pass_modules>>

\* one iteration of the loops of lines 19-28
Merge ==
    /\ UNCHANGED besidesRegistration
    /\ pc = "merge"
    /\ pos < Len(RegionLoop(types_by_regions))
    /\ types_to_register' =
           Register(types_to_register, RegionLoop(types_by_regions)[pos + 1])
    /\ pos' = pos + 1
    /\ UNCHANGED <<base_class, default_content_types,
                   USE_LEGACY_TABLE_NAMES, hook, feincms_model,
                   types_by_regions, it, calls, sys_modules, pass,
                   first_pass_modules, pc>>

\* the loops of lines 19-28 are over
MergeDone ==
    /\ UNCHANGED besidesRegistration
    /\ pc = "merge"
    /\ pos = Len(RegionLoop(types_by_regions))
    /\ pc' = "create"
    /\ UNCHANGED <<base_class, default_content_types,
                   USE_LEGACY_TABLE_NAMES, hook, feincms_model,
                   types_by_regions, types_to_register, pos, it, calls,
                   sys_modules, pass, first_pass_modules>>

\* one iteration of the loop of lines 30-57
Create ==
    /\ UNCHANGED besidesRegistration
    /\ pc = "create"
    /\ it < Len(types_to_register)
    /\ LET params == types_to_register[it + 1]
           class_name == GetContentTypeClassName(feincms_model, params.type)
           new_content_type ==
               CreateContentType(feincms_model, params.type, class_name, pass)
       IN  /\ calls' = Append(calls,
                  [type |-> params.type, regions |-> params.regions,
                   class_name |-> class_name, optgroup |-> params.category,
                   kwargs |-> params.kwargs, result |-> new_content_type])
           /\ sys_modules' =
                  Expose(sys_modules, DocModule(feincms_model), new_content_type)
    /\ it' = it + 1
    /\ UNCHANGED <<base_class, default_content_types,
                   USE_LEGACY_TABLE_NAMES, hook, feincms_model,
                   types_by_regions, types_to_register, pos, pass,
                   first_pass_modules, pc>>

\* the loop of lines 30-57 is over: create_content_types returns
CreateDone ==
    /\ UNCHANGED besidesRegistration
    /\ pc = "create"
    /\ it = Len(types_to_register)
    /\ pc' = "done"
    /\ first_pass_modules' = IF pass = 1 THEN sys_modules ELSE first_pass_modules
    /\ UNCHANGED <<base_class, default_content_types,
                   USE_LEGACY_TABLE_NAMES, hook, feincms_model,
                   types_by_regions, types_to_register, pos, it, calls,
                   sys_modules, pass>>

(***************************************************************************)
(* base.py: LumpyContent._register, the registration of the legacy base.   *)
(***************************************************************************)
\* the metaclass calls _register on a concrete class (lines 42-47)
LumpyStart ==
    /\ UNCHANGED besidesRegistration
    /\ base_class = "LumpyContent"
    /\ pc \in {"idle", "done"}
    /\ pass < MaxPasses
    /\ pass' = pass + 1
    /\ it' = 0
    /\ calls' = <<>>
    /\ pc' = "lumpy"
    /\ UNCHANGED <<base_class, default_content_types,
                   USE_LEGACY_TABLE_NAMES, hook, feincms_model,
                   types_by_regions, types_to_register, pos, sys_modules,
                   first_pass_modules>>

\* one iteration of the loop of lines 49-60
LumpyCreate ==
    /\ UNCHANGED besidesRegistration
    /\ pc = "lumpy"
    /\ it < Len(default_content_types)
    /\ LET entry == default_content_types[it + 1]
           content_type == EntryType(entry)
           regions == IF entry.form = "tuple" THEN entry.items[2] ELSE None
           new_content_type ==
               CreateContentType(feincms_model, content_type, None, pass)
           name == feincms_model \o content_type
       IN  /\ calls' = Append(calls,
                  [type |-> content_type, regions |-> regions,
                   class_name |-> None, optgroup |-> None,
                   kwargs |-> {}, result |-> new_content_type])
           /\ sys_modules' = LumpyExpose(sys_modules, DocModule(feincms_model),
                                         name, new_content_type)
    /\ it' = it + 1
    /\ UNCHANGED <<base_class, default_content_types,
                   USE_LEGACY_TABLE_NAMES, hook, feincms_model,
                   types_by_regions, types_to_register, pos, pass,
                   first_pass_modules, pc>>

\* the loop of lines 49-60 is over: _register returns
LumpyDone ==
    /\ UNCHANGED besidesRegistration
    /\ pc = "lumpy"
    /\ it = Len(default_content_types)
    /\ pc' = "done"
    /\ first_pass_modules' = IF pass = 1 THEN sys_modules ELSE first_pass_modules
    /\ UNCHANGED <<base_class, default_content_types,
                   USE_LEGACY_TABLE_NAMES, hook, feincms_model,
                   types_by_regions, types_to_register, pos, it, calls,
                   sys_modules, pass>>

Next ==
    \/ Start \/ Merge \/ MergeDone \/ Create \/ CreateDone
    \/ LumpyStart \/ LumpyCreate \/ LumpyDone

Spec == Init /\ [][Next]_vars

\* the registration has not started and starts nothing
NoRegistration ==
    /\ base_class = "FeinCMSDocument"
    /\ default_content_types = <<>>
    /\ USE_LEGACY_TABLE_NAMES = FALSE
    /\ hook = "default"
    /\ feincms_model = "Page"
    /\ types_by_regions \in RegionDecls(1, 0)
    /\ types_to_register = <<>>
    /\ pos = 0
    /\ it = 0
    /\ calls = <<>>
    /\ sys_modules = InitModules
    /\ pass = 0
    /\ first_pass_modules = InitModules
    /\ pc = "idle"

(***************************************************************************)
(* The content classes.                                                    *)
(***************************************************************************)
\* the Content subclasses and their mixins, in the order of their definition;
\* Content is the root marker and Mixin a class that is no Content
Classes == <<"A", "B", "C", "D">>

RootBases == ("Content" :> <<>>) @@ ("Mixin" :> <<>>)

\* _meta.app_label and _meta.model_name of a class
AppLabel(k) == IF k \in {"A", "B"} THEN "appx" ELSE "appz"

ModelName(k) ==
    CASE k = "A" -> "a" [] k = "B" -> "b" [] k = "C" -> "c" [] k = "D" -> "d"

\* The classes the i-th class can list as bases, in the order in which it
\* lists them: Python refuses a class whose bases cannot be linearised, so
\* every list of bases follows one order, in which a class comes after its
\* subclasses.
BaseOrder(i) ==
    [j \in 1..(i + 1) |->
        IF j < i THEN Classes[i - j] ELSE IF j = i THEN "Mixin" ELSE "Content"]

BaseLists(i) ==
    {SelectSeq(BaseOrder(i), LAMBDA x : x \in S) :
        S \in {T \in SUBSET {BaseOrder(i)[j] : j \in 1..(i + 1)} :
                  Cardinality(T) \in 1..MaxBases}}

\* the hierarchies of the first n classes
RECURSIVE Hierarchies(_)
Hierarchies(n) ==
    IF n = 0 THEN {RootBases}
    ELSE {h @@ (Classes[n] :> bl) : h \in Hierarchies(n - 1), bl \in BaseLists(n)}

\* the hierarchies of a concrete chunk class C over the content types A and B
ChunkHierarchies ==
    {RootBases @@ ("A" :> <<"Content">>) @@ ("B" :> <<"A">>) @@ ("C" :> <<"B">>),
     RootBases @@ ("A" :> <<"Content">>) @@ ("B" :> <<"Content">>) @@ ("C" :> <<"B", "A">>),
     RootBases @@ ("A" :> <<"Content">>) @@ ("B" :> <<"A">>) @@ ("C" :> <<"B", "A">>),
     RootBases @@ ("A" :> <<"Content">>) @@ ("B" :> <<"Mixin">>) @@ ("C" :> <<"B", "A">>),
     RootBases @@ ("A" :> <<"Content">>) @@ ("B" :> <<"A">>) @@ ("C" :> <<"Mixin", "Content">>)}

\* the class of the chunk instance: type(self)
ChunkClass == "C"

\* the regions a chunk is placed in
ChunkRegions == {"main", "sidebar"}

(***************************************************************************)
(* feincmstools/base.py: Content, the walk of the hierarchy.               *)
(***************************************************************************)
\* issubclass(k, Content)
RECURSIVE IsContentSubclass(_, _)
IsContentSubclass(h, k) ==
    \/ k = "Content"
    \/ \E j \in 1..Len(h[k]) : IsContentSubclass(h, h[k][j])

\* the test of lines 361 and 365
IsContentType(h, base) == IsContentSubclass(h, base) /\ base # "Content"

\* _bases_that_are_content_types that yields each base's ancestors right
\* after the base
RECURSIVE DepthFirstBases(_, _)
DepthFirstBases(h, klass) ==
    LET RECURSIVE Each(_)
        Each(bs) ==
            IF bs = <<>> THEN <<>>
            ELSE <<Head(bs)>> \o DepthFirstBases(h, Head(bs)) \o Each(Tail(bs))
    IN  Each(SelectSeq(h[klass], LAMBDA b : IsContentType(h, b)))

\* _bases_that_are_content_types that yields no class a second time, as
\* the method resolution order does
RECURSIVE WithoutRepeats(_, _)
WithoutRepeats(s, seen) ==
    IF s = <<>> THEN <<>>
    ELSE IF Head(s) \in seen THEN WithoutRepeats(Tail(s), seen)
    ELSE <<Head(s)>> \o WithoutRepeats(Tail(s), seen \cup {Head(s)})

EachBaseOnce(h, klass) == WithoutRepeats(DepthFirstBases(h, klass), {})

\* Content._bases_that_are_content_types(klass), as the sequence it yields
RECURSIVE BasesThatAreContentTypes(_, _)
BasesThatAreContentTypes(h, klass) ==
    LET direct == SelectSeq(h[klass], LAMBDA b : IsContentType(h, b))
        RECURSIVE Ancestors(_)
        Ancestors(bs) ==
            IF bs = <<>> THEN <<>>
            ELSE BasesThatAreContentTypes(h, Head(bs)) \o Ancestors(Tail(bs))
    IN  direct \o Ancestors(direct)

\* a call of Content._bases_that_are_content_types(klass), run to its end
Walk(klass) ==
    /\ klass \in DOMAIN bases
    /\ outcome' = [op |-> "walk", klass |-> klass,
                   result |-> BasesThatAreContentTypes(bases, klass)]
    /\ UNCHANGED <<bases, class_templates, templates, chunk, editor_includes>>
    /\ UNCHANGED besidesContent

WalkInit ==
    /\ NoRegistration
    /\ NoView
    /\ NoDocument
    /\ bases \in Hierarchies(Len(Classes))
    /\ class_templates = [render |-> None, admin |-> None]
    /\ templates = {}
    /\ chunk = [exists |-> FALSE]
    /\ editor_includes = <<>>
    /\ outcome = [op |-> "none"]

WalkNext == \E klass \in DOMAIN RootBases \cup {Classes[i] : i \in 1..Len(Classes)} : Walk(klass)

WalkSpec == WalkInit /\ [][WalkNext]_vars

(***************************************************************************)
(* feincmstools/base.py: Content, the template paths.                      *)
(***************************************************************************)
\* Content._template_params(klass, base, region)
TemplateParams(klass, base, region) ==
    [content_type_defining_app |-> AppLabel(base),
     content_model_name |-> ModelName(base),
     content_type_using_app |-> AppLabel(klass),
     content_type_using_model |-> ModelName(klass),
     content_type_using_region |-> region]

\* the patterns of lines 392-395 and 370, filled with params
Pt1(params) ==
    "content_types/" \o params.content_type_defining_app \o "/"
        \o params.content_model_name \o "/" \o params.content_type_using_app
        \o "_" \o params.content_type_using_model
        \o "_" \o params.content_type_using_region \o ".html"

Pt2(params) ==
    "content_types/" \o params.content_type_defining_app \o "/"
        \o params.content_model_name \o "/" \o params.content_type_using_model
        \o "_" \o params.content_type_using_region \o ".html"

Pt3(params) ==
    "content_types/" \o params.content_type_defining_app \o "/"
        \o params.content_model_name \o "/"
        \o params.content_type_using_region \o ".html"

Pt4(params) ==
    "content_types/" \o params.content_type_defining_app \o "/"
        \o params.content_model_name \o "/render.html"

AdminPt(params) ==
    "content_types/" \o params.content_type_defining_app \o "/"
        \o params.content_model_name \o "/admin_init.html"

\* the four paths of lines 400-403 without render.html
PathsOfBaseNoFallback(klass, base, region) ==
    LET params == TemplateParams(klass, base, region)
    IN  <<Pt1(params), Pt2(params), Pt3(params)>>

\* lines 399-403: the paths yielded for one base
PathsOfBase(klass, base, region) ==
    LET params == TemplateParams(klass, base, region)
    IN  <<Pt1(params), Pt2(params), Pt3(params), Pt4(params)>>

\* Content._render_template_paths(region) of an instance of klass
RenderTemplatePaths(h, klass, region) ==
    LET RECURSIVE Each(_)
        Each(bs) ==
            IF bs = <<>> THEN <<>>
            ELSE PathsOfBase(klass, Head(bs), region) \o Each(Tail(bs))
    IN  Each(BasesThatAreContentTypes(h, klass))

\* Content._admin_template_paths() of an instance of klass
AdminTemplatePaths(h, klass) ==
    LET RECURSIVE Each(_)
        Each(bs) ==
            IF bs = <<>> THEN <<>>
            ELSE <<AdminPt(TemplateParams(klass, Head(bs), None))>> \o Each(Tail(bs))
    IN  Each(BasesThatAreContentTypes(h, klass))

\* Content._detect_template(path): the path when get_template finds it
DetectTemplate(backend, path) == IF path \in backend THEN path ELSE None

\* the loops of lines 377-379 and 406-408 returning the last path detected
RECURSIVE LastDetected(_, _)
LastDetected(backend, paths) ==
    IF paths = <<>> THEN None
    ELSE IF DetectTemplate(backend, paths[Len(paths)]) # None THEN paths[Len(paths)]
    ELSE LastDetected(backend, SubSeq(paths, 1, Len(paths) - 1))

\* the loops of lines 377-379 and 406-408: the first path detected, or None
RECURSIVE FirstDetected(_, _)
FirstDetected(backend, paths) ==
    IF paths = <<>> THEN None
    ELSE IF DetectTemplate(backend, Head(paths)) # None THEN Head(paths)
    ELSE FirstDetected(backend, Tail(paths))

\* Content._find_render_template_path(region)
FindRenderTemplatePath(h, backend, klass, region) ==
    FirstDetected(backend, RenderTemplatePaths(h, klass, region))

\* Content._find_admin_template_path()
FindAdminTemplatePath(h, backend, klass) ==
    FirstDetected(backend, AdminTemplatePaths(h, klass))

\* Python's "a or b" on a path or None
Or(a, b) == IF a # None THEN a ELSE b

(***************************************************************************)
(* feincmstools/base.py: Content, the chunk instance.                      *)
(***************************************************************************)
\* a template path set on the chunk's class, outside the naming scheme
CustomTemplate == "custom/chunk.html"

\* the paths a template can be deployed at: the render paths of a chunk in
\* main, a path of a chunk in sidebar, an admin path and the custom path
TemplateUniverse ==
    UNION {{Pt1(TemplateParams(ChunkClass, b, "main")),
            Pt2(TemplateParams(ChunkClass, b, "main")),
            Pt3(TemplateParams(ChunkClass, b, "main")),
            Pt4(TemplateParams(ChunkClass, b, "main"))} : b \in {"A", "B"}}
    \cup {Pt3(TemplateParams(ChunkClass, "A", "sidebar")),
          AdminPt(TemplateParams(ChunkClass, "A", None)),
          CustomTemplate}

\* the classes that can hold a feincms_item_editor_includes attribute: the
\* Document classes and the base class they inherit from
IncludeHolders == Documents \cup {"Base"}

NoIncludes == [d \in IncludeHolders |-> [defined |-> FALSE, head |-> {}]]

\* the class whose feincms_item_editor_includes an attribute lookup on the
\* Document class doc finds, None when hasattr is false
IncludesHolder(inc, doc) ==
    IF inc[doc].defined THEN doc
    ELSE IF inc["Base"].defined THEN "Base"
    ELSE None

\* lines 327-330
RegisterAdminTemplate(inc, parent_class, admin_template) ==
    IF parent_class # None /\ admin_template # None
    THEN LET inc1 == IF IncludesHolder(inc, parent_class) = None
                     THEN [inc EXCEPT ![parent_class] =
                              [defined |-> TRUE, head |-> {}]]
                     ELSE inc
             holder == IncludesHolder(inc1, parent_class)
         IN  [inc1 EXCEPT ![holder].head = @ \cup {admin_template}]
    ELSE inc

\* Content.__init__ (lines 321-332) of a chunk of the concrete class made
\* for the Document class parent_class, placed in region
Instantiate(parent_class, region) ==
    /\ bases # <<>>
    /\ LET render_template ==
               Or(class_templates.render,
                  FindRenderTemplatePath(bases, templates, ChunkClass, region))
           admin_template ==
               Or(class_templates.admin,
                  FindAdminTemplatePath(bases, templates, ChunkClass))
       IN  /\ chunk' = [exists |-> TRUE, klass |-> ChunkClass,
                        region |-> region, parent_class |-> parent_class,
                        render_template |-> render_template,
                        admin_template |-> admin_template]
           /\ editor_includes' =
                  RegisterAdminTemplate(editor_includes, parent_class, admin_template)
    /\ outcome' = [op |-> "init"]
    /\ UNCHANGED <<bases, class_templates, templates>>
    /\ UNCHANGED besidesContent

\* the context arguments of render: none, or a mapping
NoContextArg == [given |-> FALSE]

ContextArgs == {NoContextArg, [given |-> TRUE, value |-> ("content" :> "caller")]}

\* the chunk's extra_context: not defined, or a callable and what it returns
NoExtraContext == [callable |-> FALSE]

ExtraContexts ==
    {NoExtraContext,
     [callable |-> TRUE, returns |-> ("author" :> "extra")],
     [callable |-> TRUE, returns |-> ("content" :> "extra")]}

\* dict.update: the items of other replace those of d
Update(d, other) == other @@ d

\* render (lines 300-319) that defaults the request to None
RenderDefaultingRequest(has_request, context_arg, extra_context) ==
    LET template ==
            Or(chunk.render_template,
               FindRenderTemplatePath(bases, templates, chunk.klass, chunk.region))
        request == IF has_request THEN "request" ELSE None
        probed == chunk.render_template = None
        context0 == IF context_arg.given THEN context_arg.value ELSE <<>>
        context1 == Update(context0, "content" :> "self")
        context2 == IF extra_context.callable
                    THEN Update(context1, extra_context.returns)
                    ELSE context1
    IN  IF template = None
        THEN [op |-> "render", with_request |-> has_request, probed |-> probed,
              raised |-> "NotImplementedError",
              tried |-> RenderTemplatePaths(bases, chunk.klass, chunk.region),
              backend_called |-> FALSE]
        ELSE [op |-> "render", with_request |-> has_request, probed |-> probed,
              raised |-> IF template \in templates THEN None
                         ELSE "TemplateDoesNotExist",
              template |-> template, context |-> context2,
              request |-> request, backend_called |-> TRUE]

\* render (lines 300-319) that resolves the template anew on every call
RenderResolvingAnew(has_request, context_arg, extra_context) ==
    LET template ==
            FindRenderTemplatePath(bases, templates, chunk.klass, chunk.region)
        probed == TRUE
        context0 == IF context_arg.given THEN context_arg.value ELSE <<>>
        context1 == Update(context0, "content" :> "self")
        context2 == IF extra_context.callable
                    THEN Update(context1, extra_context.returns)
                    ELSE context1
    IN  IF template = None
        THEN [op |-> "render", with_request |-> has_request, probed |-> probed,
              raised |-> "NotImplementedError",
              tried |-> RenderTemplatePaths(bases, chunk.klass, chunk.region),
              backend_called |-> FALSE]
        ELSE IF ~has_request
        THEN [op |-> "render", with_request |-> has_request, probed |-> probed,
              raised |-> "KeyError", key |-> "request",
              backend_called |-> FALSE]
        ELSE [op |-> "render", with_request |-> has_request, probed |-> probed,
              raised |-> IF template \in templates THEN None
                         ELSE "TemplateDoesNotExist",
              template |-> template, context |-> context2,
              request |-> "request", backend_called |-> TRUE]

\* Content.render(**kwargs) (lines 300-319): what it returns or raises;
\* probed tells whether it called _find_render_template_path
RenderOutcome(has_request, context_arg, extra_context) ==
    LET template ==
            Or(chunk.render_template,
               FindRenderTemplatePath(bases, templates, chunk.klass, chunk.region))
        probed == chunk.render_template = None
        context0 == IF context_arg.given THEN context_arg.value ELSE <<>>
        context1 == Update(context0, "content" :> "self")
        context2 == IF extra_context.callable
                    THEN Update(context1, extra_context.returns)
                    ELSE context1
    IN  IF template = None
        THEN [op |-> "render", with_request |-> has_request, probed |-> probed,
              raised |-> "NotImplementedError",
              tried |-> RenderTemplatePaths(bases, chunk.klass, chunk.region),
              backend_called |-> FALSE]
        ELSE IF ~has_request
        THEN [op |-> "render", with_request |-> has_request, probed |-> probed,
              raised |-> "KeyError", key |-> "request",
              backend_called |-> FALSE]
        ELSE [op |-> "render", with_request |-> has_request, probed |-> probed,
              raised |-> IF template \in templates THEN None
                         ELSE "TemplateDoesNotExist",
              template |-> template, context |-> context2,
              request |-> "request", backend_called |-> TRUE]

\* a call of chunk.render, with or without request and context
Render(has_request, context_arg, extra_context) ==
    /\ chunk.exists
    /\ outcome' = RenderOutcome(has_request, context_arg, extra_context)
    /\ UNCHANGED <<bases, class_templates, templates, chunk, editor_includes>>
    /\ UNCHANGED besidesContent

\* a call of chunk._find_render_template_path(self.region)
FindRender ==
    /\ chunk.exists
    /\ outcome' = [op |-> "find", region |-> chunk.region,
                   result |-> FindRenderTemplatePath(bases, templates,
                                                     chunk.klass, chunk.region)]
    /\ UNCHANGED <<bases, class_templates, templates, chunk, editor_includes>>
    /\ UNCHANGED besidesContent

\* a template is deployed at path
AddTemplate(path) ==
    /\ path \notin templates
    /\ Cardinality(templates) < MaxTemplates
    /\ templates' = templates \cup {path}
    /\ outcome' = [op |-> "backend"]
    /\ UNCHANGED <<bases, class_templates, chunk, editor_includes>>
    /\ UNCHANGED besidesContent

\* the template at path is removed
RemoveTemplate(path) ==
    /\ path \in templates
    /\ templates' = templates \ {path}
    /\ outcome' = [op |-> "backend"]
    /\ UNCHANGED <<bases, class_templates, chunk, editor_includes>>
    /\ UNCHANGED besidesContent

RenderInit ==
    /\ NoRegistration
    /\ NoView
    /\ NoDocument
    /\ bases \in ChunkHierarchies
    /\ class_templates \in
           {[render |-> r, admin |-> None] : r \in {None, CustomTemplate}}
    /\ templates = {}
    /\ chunk = [exists |-> FALSE]
    /\ editor_includes = NoIncludes
    /\ outcome = [op |-> "none"]

RenderNext ==
    \/ \E region \in ChunkRegions : Instantiate("Page", region)
    \/ \E has_request \in BOOLEAN :
           Render(has_request, NoContextArg, NoExtraContext)
    \/ FindRender
    \/ \E path \in TemplateUniverse : AddTemplate(path)
    \/ \E path \in TemplateUniverse : RemoveTemplate(path)

RenderSpec == RenderInit /\ [][RenderNext]_vars

\* the paths a template is deployed at while the contexts of render vary
ContextTemplates ==
    {CustomTemplate, Pt4(TemplateParams(ChunkClass, "A", "main"))}

\* render called with every kind of context argument, on chunks with and
\* without an extra_context callable
ContextNext ==
    \/ \E region \in ChunkRegions : Instantiate("Page", region)
    \/ \E has_request \in BOOLEAN, context_arg \in ContextArgs,
          extra_context \in ExtraContexts :
           Render(has_request, context_arg, extra_context)
    \/ \E path \in ContextTemplates : AddTemplate(path)
    \/ \E path \in ContextTemplates : RemoveTemplate(path)

ContextSpec == RenderInit /\ [][ContextNext]_vars

\* feincms_item_editor_includes set on the base class of the Documents, as
\* LumpyContent sets it (base.py, lines 36-38)
BaseIncludes ==
    [d \in IncludeHolders |->
        IF d = "Base"
        THEN [defined |-> TRUE, head |-> {"feincmstools/item_editor_head.html"}]
        ELSE [defined |-> FALSE, head |-> {}]]

\* the admin paths a template is deployed at
AdminTemplates ==
    {AdminPt(TemplateParams(ChunkClass, b, None)) : b \in {"A", "B"}}

\* the Document class a chunk's class was made for: _feincms_content_class,
\* None on a class that create_content_type did not make
ParentClasses == Documents \cup {None}

IncludeInit ==
    /\ NoRegistration
    /\ NoView
    /\ NoDocument
    /\ bases \in ChunkHierarchies
    /\ class_templates = [render |-> None, admin |-> None]
    /\ templates = {}
    /\ chunk = [exists |-> FALSE]
    /\ editor_includes \in {NoIncludes, BaseIncludes}
    /\ outcome = [op |-> "none"]

\* chunks of either Document class are instantiated while admin templates
\* come and go
IncludeNext ==
    \/ \E parent_class \in ParentClasses, region \in ChunkRegions :
           Instantiate(parent_class, region)
    \/ \E path \in AdminTemplates : AddTemplate(path)
    \/ \E path \in AdminTemplates : RemoveTemplate(path)

IncludeSpec == IncludeInit /\ [][IncludeNext]_vars

(***************************************************************************)
(* models.py: ViewContent, the content backed by a view.                   *)
(***************************************************************************)
\* The importable modules and what each defines. A view is named by what it
\* does when called: "response" returns an HttpResponse, "raw" a string,
\* "raises" raises, and "needs_request" raises when the request is None.
ViewModules ==
    (<<"a">> :> ((<<"v">> :> "response") @@ (<<"x">> :> "raises")
                 @@ (<<"y">> :> "needs_request")))
    @@ (<<"a", ".", "b">> :> (<<"v">> :> "raw"))

\* the values of the view field: a.v, a.x, a.y and a.b.v resolve; a.z names
\* no attribute, c.v no module, and av has no dot
ViewPaths ==
    {<<"a", ".", "v">>, <<"a", ".", "x">>, <<"a", ".", "y">>,
     <<"a", ".", "b", ".", "v">>, <<"a", ".", "z">>, <<"c", ".", "v">>,
     <<"a", "v">>}

\* path.rfind('.'), counted from 1: 0 when path has no dot
RFind(path) ==
    LET dots == {i \in 1..Len(path) : path[i] = "."}
    IN  IF dots = {} THEN 0 ELSE CHOOSE i \in dots : \A j \in dots : j <= i

\* path[:i] of line 80; a path without a dot loses its last character
ModuleOf(path) ==
    IF RFind(path) = 0 THEN SubSeq(path, 1, Len(path) - 1)
    ELSE SubSeq(path, 1, RFind(path) - 1)

\* path[i+1:] of line 80
ViewNameOf(path) == SubSeq(path, RFind(path) + 1, Len(path))

\* get_view_from_path with the AttributeError of getattr left as it is
GetViewUnwrapped(path) ==
    IF ModuleOf(path) \notin DOMAIN ViewModules
    THEN [raised |-> "ImproperlyConfigured", stage |-> "import"]
    ELSE IF ViewNameOf(path) \notin DOMAIN ViewModules[ModuleOf(path)]
    THEN [raised |-> "AttributeError", stage |-> "getattr"]
    ELSE [raised |-> None, view |-> ViewModules[ModuleOf(path)][ViewNameOf(path)]]

\* ViewContent.get_view_from_path(path) (lines 78-94)
GetViewFromPath(path) ==
    IF ModuleOf(path) \notin DOMAIN ViewModules
    THEN [raised |-> "ImproperlyConfigured", stage |-> "import"]
    ELSE IF ViewNameOf(path) \notin DOMAIN ViewModules[ModuleOf(path)]
    THEN [raised |-> "ImproperlyConfigured", stage |-> "getattr"]
    ELSE [raised |-> None, view |-> ViewModules[ModuleOf(path)][ViewNameOf(path)]]

\* view(request) of line 103: what the view returns or raises
CallView(v, request) ==
    CASE v = "response" -> [raised |-> None, has_content |-> TRUE,
                            content |-> "response body"]
      [] v = "raw" -> [raised |-> None, has_content |-> FALSE,
                       value |-> "raw markup"]
      [] v = "raises" -> [raised |-> "ValueError"]
      [] v = "needs_request" ->
             IF request = None THEN [raised |-> "AttributeError"]
             ELSE [raised |-> None, has_content |-> TRUE,
                   content |-> "response body"]

\* render (lines 96-112) with handlers that never look at settings.DEBUG
ViewRenderSwallowing(debug, path, has_request) ==
    LET found == GetViewFromPath(path)
        response == CallView(found.view, IF has_request THEN "request" ELSE None)
    IN  IF found.raised # None
        THEN [op |-> "view_render", raised |-> None,
              returned |-> "<p>Content could not be found.</p>"]
        ELSE IF response.raised # None
        THEN [op |-> "view_render", raised |-> None,
              returned |-> "<p>Error rendering content.</p>"]
        ELSE [op |-> "view_render", raised |-> None,
              returned |-> IF response.has_content THEN response.content
                           ELSE response.value]

\* ViewContent.render(**kwargs) (lines 96-112): what it returns or raises
ViewRenderOutcome(debug, path, has_request) ==
    LET found == GetViewFromPath(path)
        response == CallView(found.view, IF has_request THEN "request" ELSE None)
    IN  IF found.raised # None
        THEN IF debug
             THEN [op |-> "view_render", raised |-> found.raised, returned |-> None]
             ELSE [op |-> "view_render", raised |-> None,
                   returned |-> "<p>Content could not be found.</p>"]
        ELSE IF response.raised # None
        THEN IF debug
             THEN [op |-> "view_render", raised |-> response.raised, returned |-> None]
             ELSE [op |-> "view_render", raised |-> None,
                   returned |-> "<p>Error rendering content.</p>"]
        ELSE [op |-> "view_render", raised |-> None,
              returned |-> IF response.has_content THEN response.content
                           ELSE response.value]

\* a call of render on the ViewContent instance
ViewRender(has_request) ==
    /\ outcome' = ViewRenderOutcome(DEBUG, view, has_request)
                      @@ [debug |-> DEBUG, path |-> view, with_request |-> has_request]
    /\ UNCHANGED <<bases, class_templates, templates, chunk, editor_includes>>
    /\ UNCHANGED <<registrationVars, viewVars, documentVars>>

\* a call of ViewContent.get_view_from_path on the instance's view field
GetView ==
    /\ outcome' = GetViewFromPath(view)
                      @@ [op |-> "get_view", debug |-> DEBUG, path |-> view]
    /\ UNCHANGED <<bases, class_templates, templates, chunk, editor_includes>>
    /\ UNCHANGED <<registrationVars, viewVars, documentVars>>

\* the view field of the instance is set to path
SetView(path) ==
    /\ path # view
    /\ view' = path
    /\ outcome' = [op |-> "set_view"]
    /\ UNCHANGED DEBUG
    /\ UNCHANGED <<bases, class_templates, templates, chunk, editor_includes>>
    /\ UNCHANGED <<registrationVars, documentVars>>

(***************************************************************************)
(* base.py: ReusableBase, the metaclass of the reusable content types.     *)
(***************************************************************************)
\* The classes a reusable content type can list as a base, by what the
\* metaclass looks at: __metaclass__, __module__ and concrete_model.
\* Model is django's models.Model, Reusable the convenience class of
\* feincmstools.models, Gallery an application's reusable content type and
\* HasImage an application's mixin that sets concrete_model.
ReusableBases ==
    {[name |-> "Model", metaclass |-> "ModelBase",
      module |-> "django.db.models", attrs |-> <<>>],
     [name |-> "Reusable", metaclass |-> "ReusableBase",
      module |-> "feincmstools.models", attrs |-> <<>>],
     [name |-> "Gallery", metaclass |-> "ReusableBase",
      module |-> "app.models", attrs |-> [concrete_model |-> "Image"]],
     [name |-> "HasImage", metaclass |-> "ModelBase",
      module |-> "app.models", attrs |-> [concrete_model |-> "Image"]]}

\* the lists of 1 to n bases
RECURSIVE ReusableBaseSeqs(_)
ReusableBaseSeqs(n) ==
    IF n = 0 THEN {}
    ELSE {<<b>> : b \in ReusableBases}
         \cup {<<b>> \o bs : b \in ReusableBases, bs \in ReusableBaseSeqs(n - 1)}

\* the attrs of the class statement: __module__, and concrete_model when the
\* body sets it
ReusableAttrs ==
    {[__module__ |-> m] : m \in {"feincmstools.models", "app.models"}}
    \cup {[__module__ |-> m, concrete_model |-> c] :
              m \in {"feincmstools.models", "app.models"}, c \in {None, "Image"}}

\* get_base_attribute(bases, value, default) (lines 93-98)
RECURSIVE get_base_attribute(_, _, _)
get_base_attribute(bs, value, default) ==
    IF bs = <<>> THEN default
    ELSE IF value \in DOMAIN Head(bs).attrs THEN Head(bs).attrs[value]
    ELSE get_base_attribute(Tail(bs), value, default)

\* ReusableBase.__new__(cls, name, bases, attrs) (lines 122-171)
ReusableNew(name, bs, attrs) ==
    IF attrs.__module__ = "feincmstools.models"
    THEN [raised |-> None, initialised |-> FALSE]
    ELSE IF \E i \in 1..Len(bs) :
                bs[i].metaclass = "ReusableBase" /\ bs[i].module # "feincmstools.models"
    THEN [raised |-> None, initialised |-> FALSE]
    ELSE LET concrete_model ==
                 IF "concrete_model" \in DOMAIN attrs THEN attrs.concrete_model
                 ELSE get_base_attribute(bs, "concrete_model", None)
         IN  IF concrete_model = None
             THEN [raised |-> "ImproperlyConfigured", initialised |-> FALSE]
             ELSE [raised |-> None, initialised |-> TRUE,
                   concrete_model |-> concrete_model]

\* a class statement whose metaclass is ReusableBase
DefineReusable(bs, attrs) ==
    /\ outcome' = ReusableNew("Slideshow", bs, attrs)
                      @@ [op |-> "define", bases |-> bs, attrs |-> attrs]
    /\ UNCHANGED <<bases, class_templates, templates, chunk, editor_includes>>
    /\ UNCHANGED <<registrationVars, viewVars, documentVars>>

ViewInit ==
    /\ NoRegistration
    /\ NoContent
    /\ NoDocument
    /\ DEBUG \in BOOLEAN
    /\ view \in ViewPaths

ViewNext ==
    \/ \E has_request \in BOOLEAN : ViewRender(has_request)
    \/ GetView
    \/ \E path \in ViewPaths : SetView(path)
    \/ \E bs \in ReusableBaseSeqs(MaxBases), attrs \in ReusableAttrs :
           DefineReusable(bs, attrs)

ViewSpec == ViewInit /\ [][ViewNext]_vars

(***************************************************************************)
(* feincmstools/base.py: FeinCMSDocument._register, and base.py:           *)
(* LumpyContent._register, each as the metaclass runs it.                  *)
(***************************************************************************)
\* the regions a Document class declares, by their keys
DocRegionLists == {<<"main">>, <<"main", "sidebar">>, <<"sidebar", "main">>}

\* the template configurations a Document class declares
TemplateLists ==
    {<<[key |-> "base", regions |-> <<"sidebar", "main">>]>>,
     <<[key |-> "base", regions |-> <<"main">>],
       [key |-> "wide", regions |-> <<"main", "sidebar">>]>>}

\* "if x:" on an attribute that is None or a list
Truthy(x) == x.given /\ x.value # <<>>

\* Template('', '', regions).regions: a Region for each declared region
TemplateRegions(regions) == [i \in 1..Len(regions) |-> [key |-> regions[i]]]

\* the regions of all the templates, one template after the other
RECURSIVE RegionsOfTemplates(_)
RegionsOfTemplates(tmpls) ==
    IF tmpls = <<>> THEN <<>>
    ELSE TemplateRegions(Head(tmpls).regions) \o RegionsOfTemplates(Tail(tmpls))

\* how often x occurs in the sequence s
Count(s, x) == Cardinality({i \in 1..Len(s) : s[i] = x})

\* cls.register_regions(*regions): the host makes one template of the regions
HostRegisterRegions(regions) == Given(TemplateRegions(regions))

\* cls.register_templates(*templates): the host collects the regions of all
\* the templates in a set, so _feincms_all_regions holds every declared
\* region, in an order the host chooses; whether two templates' regions of
\* one key count once or twice is the host's choice too
HostRegisterTemplates(tmpls) ==
    LET declared == RegionsOfTemplates(tmpls)
        used == {declared[i] : i \in 1..Len(declared)}
    IN  {Given(s) : s \in
            {s \in UNION {[1..n -> used] : n \in Cardinality(used)..Len(declared)} :
                /\ {s[i] : i \in 1..Len(s)} = used
                /\ \A r \in used : Count(s, r) <= Count(declared, r)}}

\* _register_templates_or_regions where the regions are registered too when
\* both are given, after the templates
RegisterRegionsOverTemplates(regions, tmpls, current) ==
    IF Truthy(tmpls)
    THEN IF Truthy(regions)
         THEN {[all_regions |-> HostRegisterRegions(regions.value),
                steps |-> <<[call |-> "register_templates", args |-> tmpls.value],
                            [call |-> "register_regions", args |-> regions.value]>>]}
         ELSE {[all_regions |-> a,
                steps |-> <<[call |-> "register_templates", args |-> tmpls.value]>>] :
                   a \in HostRegisterTemplates(tmpls.value)}
    ELSE IF Truthy(regions)
    THEN {[all_regions |-> HostRegisterRegions(regions.value),
           steps |-> <<[call |-> "register_regions", args |-> regions.value]>>]}
    ELSE {[all_regions |-> current, steps |-> <<>>]}

\* FeinCMSDocument._register_templates_or_regions (lines 213-226): what
\* _feincms_all_regions can be afterwards, and what was called
RegisterTemplatesOrRegions(regions, tmpls, current) ==
    IF Truthy(tmpls)
    THEN {[all_regions |-> a,
           steps |-> (IF Truthy(regions)
                      THEN <<[call |-> "warn", args |-> <<>>]>> ELSE <<>>)
                     \o <<[call |-> "register_templates", args |-> tmpls.value]>>] :
              a \in HostRegisterTemplates(tmpls.value)}
    ELSE IF Truthy(regions)
    THEN {[all_regions |-> HostRegisterRegions(regions.value),
           steps |-> <<[call |-> "register_regions", args |-> regions.value]>>]}
    ELSE {[all_regions |-> current, steps |-> <<>>]}

\* FeinCMSDocument._get_content_types_by_region (lines 194-200), and line 12
\* of create_content_types
GetContentTypesByRegion(regs, fn) ==
    [i \in 1..Len(regs) |-> <<regs[i].key, fn[regs[i].key]>>]

\* the loops of lines 19-28 of create_content_types, run to their end
RECURSIVE MergeAll(_, _)
MergeAll(reg, loop) ==
    IF loop = <<>> THEN reg
    ELSE MergeAll(Register(reg, Head(loop)), Tail(loop))

\* the loop of lines 30-57 of create_content_types, run to its end
RECURSIVE CreateAll(_, _, _, _)
CreateAll(done, reg, doc, n) ==
    IF reg = <<>> THEN done
    ELSE LET params == Head(reg)
             class_name == GetContentTypeClassName(doc, params.type)
             new_content_type == CreateContentType(doc, params.type, class_name, n)
         IN  CreateAll(
                 [calls |-> Append(done.calls,
                      [type |-> params.type, regions |-> params.regions,
                       class_name |-> class_name, optgroup |-> params.category,
                       kwargs |-> params.kwargs, result |-> new_content_type]),
                  sys_modules |-> Expose(done.sys_modules, DocModule(doc),
                                         new_content_type)],
                 Tail(reg), doc, n)

\* the loop of lines 49-60 of base.py, run to its end
RECURSIVE LumpyCreateAll(_, _, _, _)
LumpyCreateAll(done, entries, doc, n) ==
    IF entries = <<>> THEN done
    ELSE LET entry == Head(entries)
             content_type == EntryType(entry)
             regions == IF entry.form = "tuple" THEN entry.items[2] ELSE None
             new_content_type == CreateContentType(doc, content_type, None, n)
         IN  LumpyCreateAll(
                 [calls |-> Append(done.calls,
                      [type |-> content_type, regions |-> regions,
                       class_name |-> None, optgroup |-> None,
                       kwargs |-> {}, result |-> new_content_type]),
                  sys_modules |-> LumpyExpose(done.sys_modules, DocModule(doc),
                                              doc \o content_type, new_content_type)],
                 Tail(entries), doc, n)

\* the entries of all the type lists of tbr, as the loops of lines 185-187
\* meet them
EntriesOf(tbr) == [i \in 1..Len(RegionLoop(tbr)) |-> RegionLoop(tbr)[i].type]

\* FeinCMSDocument.get_used_content_types (lines 175-188): r.union(types)
\* adds every entry of types as it is; a (type, kwargs) entry holds a dict
\* and cannot be hashed
UsedContentTypes(tbr) ==
    IF \E i \in 1..Len(EntriesOf(tbr)) : EntriesOf(tbr)[i].form = "tuple"
    THEN [op |-> "get_used", raised |-> "TypeError", result |-> {}]
    ELSE [op |-> "get_used", raised |-> None,
          result |-> {EntriesOf(tbr)[i].cls : i \in 1..Len(EntriesOf(tbr))}]

\* _register on an abstract class (line 208; base.py, line 42): nothing
DocSkipAbstract ==
    /\ pc = "idle"
    /\ abstract
    /\ pc' = "done"
    /\ pass' = pass + 1
    /\ UNCHANGED <<base_class, default_content_types, USE_LEGACY_TABLE_NAMES,
                   hook, feincms_model, types_by_regions, types_to_register,
                   pos, it, calls, sys_modules, first_pass_modules>>
    /\ UNCHANGED <<contentVars, viewVars, documentVars>>

\* _register on a concrete class, line 210
DocRegisterTemplatesOrRegions ==
    /\ base_class = "FeinCMSDocument"
    /\ pc = "idle"
    /\ ~abstract
    /\ \E after \in RegisterTemplatesOrRegions(feincms_regions, feincms_templates,
                                               all_regions) :
           /\ all_regions' = after.all_regions
           /\ steps' = steps \o after.steps
    /\ pc' = "regions"
    /\ pass' = pass + 1
    /\ UNCHANGED <<base_class, default_content_types, USE_LEGACY_TABLE_NAMES,
                   hook, feincms_model, types_by_regions, types_to_register,
                   pos, it, calls, sys_modules, first_pass_modules>>
    /\ UNCHANGED <<abstract, feincms_regions, feincms_templates,
                   default_regions, content_types_by_region>>
    /\ UNCHANGED <<contentVars, viewVars>>

\* _register on a concrete class, line 211: _register_content_types, which
\* is create_content_types from its first line to its last; line 12 fails
\* on a class that has no _feincms_all_regions
DocRegisterContentTypes ==
    /\ pc = "regions"
    /\ IF ~all_regions.given
       THEN /\ outcome' = [op |-> "register", raised |-> "AttributeError"]
            /\ pc' = "failed"
            /\ UNCHANGED <<types_by_regions, types_to_register, pos, it, calls,
                           sys_modules, first_pass_modules, steps>>
       ELSE LET tbr == GetContentTypesByRegion(all_regions.value,
                                               content_types_by_region)
                reg == MergeAll(<<>>, RegionLoop(tbr))
                done == CreateAll([calls |-> <<>>, sys_modules |-> sys_modules],
                                  reg, feincms_model, pass)
            IN  /\ types_by_regions' = tbr
                /\ types_to_register' = reg
                /\ pos' = Len(RegionLoop(tbr))
                /\ it' = Len(reg)
                /\ calls' = done.calls
                /\ sys_modules' = done.sys_modules
                /\ first_pass_modules' = done.sys_modules
                /\ steps' = Append(steps, [call |-> "create_content_types",
                                           args |-> tbr])
                /\ outcome' = [op |-> "register", raised |-> None]
                /\ pc' = "done"
    /\ UNCHANGED <<base_class, default_content_types, USE_LEGACY_TABLE_NAMES,
                   hook, feincms_model, pass>>
    /\ UNCHANGED <<abstract, feincms_regions, feincms_templates,
                   default_regions, content_types_by_region, all_regions>>
    /\ UNCHANGED <<bases, class_templates, templates, chunk, editor_includes>>
    /\ UNCHANGED viewVars

\* LumpyContent._register on a concrete class (base.py, lines 40-60)
DocLumpyRegister ==
    /\ base_class = "LumpyContent"
    /\ pc = "idle"
    /\ ~abstract
    /\ all_regions' = Given(TemplateRegions(default_regions))
    /\ LET done == LumpyCreateAll([calls |-> <<>>, sys_modules |-> sys_modules],
                                  default_content_types, feincms_model, pass + 1)
       IN  /\ calls' = done.calls
           /\ sys_modules' = done.sys_modules
           /\ first_pass_modules' = done.sys_modules
    /\ steps' = steps \o <<[call |-> "template", args |-> default_regions]>>
                    \o [i \in 1..Len(default_content_types) |->
                           [call |-> "create_content_type",
                            args |-> <<default_content_types[i]>>]]
    /\ it' = Len(default_content_types)
    /\ pass' = pass + 1
    /\ pc' = "done"
    /\ outcome' = [op |-> "register", raised |-> None]
    /\ UNCHANGED <<base_class, default_content_types, USE_LEGACY_TABLE_NAMES,
                   hook, feincms_model, types_by_regions, types_to_register, pos>>
    /\ UNCHANGED <<abstract, feincms_regions, feincms_templates,
                   default_regions, content_types_by_region>>
    /\ UNCHANGED <<bases, class_templates, templates, chunk, editor_includes>>
    /\ UNCHANGED viewVars

\* a call of cls.get_used_content_types(); line 200 fails on a class that
\* has no _feincms_all_regions
DocGetUsedContentTypes ==
    /\ base_class = "FeinCMSDocument"
    /\ outcome' =
           IF ~all_regions.given
           THEN [op |-> "get_used", raised |-> "AttributeError", result |-> {}]
           ELSE UsedContentTypes(
                    GetContentTypesByRegion(all_regions.value,
                                            content_types_by_region))
    /\ UNCHANGED <<bases, class_templates, templates, chunk, editor_includes>>
    /\ UNCHANGED <<registrationVars, viewVars, documentVars>>

\* what content_types_by_region returns for each region key
ContentTypesByRegionFns ==
    {[k \in {RegionKeys[i] : i \in 1..Len(RegionKeys)} |->
         d[CHOOSE i \in 1..Len(d) : d[i][1] = k][2]] :
        d \in RegionDecls(1, MaxEntries)}

DocInit ==
    /\ NoContent
    /\ NoView
    /\ base_class \in {"FeinCMSDocument", "LumpyContent"}
    /\ USE_LEGACY_TABLE_NAMES = FALSE
    /\ hook = "default"
    /\ feincms_model = "Page"
    /\ types_by_regions = <<>>
    /\ types_to_register = <<>>
    /\ pos = 0
    /\ it = 0
    /\ calls = <<>>
    /\ sys_modules = InitModules
    /\ pass = 0
    /\ first_pass_modules = InitModules
    /\ pc = "idle"
    /\ all_regions = NotGiven
    /\ steps = <<>>
    /\ abstract \in BOOLEAN
    /\ IF base_class = "FeinCMSDocument"
       THEN /\ feincms_regions \in {NotGiven} \cup {Given(r) : r \in DocRegionLists}
            /\ feincms_templates \in {NotGiven} \cup {Given(t) : t \in TemplateLists}
            /\ content_types_by_region \in ContentTypesByRegionFns
            /\ default_regions = <<>>
            /\ default_content_types = <<>>
       ELSE /\ feincms_regions = NotGiven
            /\ feincms_templates = NotGiven
            /\ content_types_by_region \in
                   {f \in ContentTypesByRegionFns : \A k \in DOMAIN f : f[k] = <<>>}
            /\ default_regions \in DocRegionLists
            /\ default_content_types \in
                   UNION {LumpyTypeSeqs(n) : n \in 0..MaxEntries}

DocNext ==
    \/ DocSkipAbstract
    \/ DocRegisterTemplatesOrRegions
    \/ DocRegisterContentTypes
    \/ DocLumpyRegister
    \/ DocGetUsedContentTypes

DocSpec == DocInit /\ [][DocNext]_vars

(***************************************************************************)
(* The declarations, read off types_by_regions without the loops.          *)
(***************************************************************************)
\* where a content type is declared: <<region index, category index, index
\* in the category's type list>>
Occurrences(t) ==
    {<<r, c, k>> \in (1..Len(types_by_regions)) \X (1..MaxEntries + 1)
                     \X (1..MaxEntries + 1) :
        /\ c <= Len(types_by_regions[r][2])
        /\ k <= Len(types_by_regions[r][2][c][2])
        /\ EntryType(types_by_regions[r][2][c][2][k]) = t}

DeclaredTypes == {t \in ContentTypes : Occurrences(t) # {}}

\* region-then-category-then-type order
Before(o1, o2) ==
    \/ o1[1] < o2[1]
    \/ o1[1] = o2[1] /\ o1[2] < o2[2]
    \/ o1[1] = o2[1] /\ o1[2] = o2[2] /\ o1[3] < o2[3]

FirstOccurrence(t) ==
    CHOOSE o \in Occurrences(t) : \A o2 \in Occurrences(t) : o2 = o \/ Before(o, o2)

DeclaringRegions(t) == {types_by_regions[o[1]][1] : o \in Occurrences(t)}

CallsOf(t) == {i \in 1..Len(calls) : calls[i].type = t}

\* C1: the registry holds each distinct content type at most once, and
\* create_content_type is invoked at most once per content type while
\* create_content_types runs and, when it has returned, exactly once per
\* declared content type and never for another.
C1_OncePerType ==
    base_class = "FeinCMSDocument" =>
    /\ \A i, j \in 1..Len(types_to_register) :
           types_to_register[i].type = types_to_register[j].type => i = j
    /\ \A t \in ContentTypes : Cardinality(CallsOf(t)) <= 1
    /\ pc = "done" =>
           \A t \in ContentTypes :
               Cardinality(CallsOf(t)) = IF t \in DeclaredTypes THEN 1 ELSE 0

\* Text is declared twice, in two regions, once as a (type, kwargs) tuple,
\* and the registration has returned.
C1_Witness ==
    /\ base_class = "FeinCMSDocument"
    /\ pc = "done"
    /\ Cardinality(Occurrences("Text")) = 2
    /\ DeclaringRegions("Text") = {"main", "sidebar"}
    /\ \E o \in Occurrences("Text") :
           types_by_regions[o[1]][2][o[2]][2][o[3]].form = "tuple"
    /\ Cardinality(CallsOf("Text")) = 1

\* C2: the regions passed to create_content_type for a content type are
\* exactly the keys of the regions whose declaration lists it.
C2_RegionsAreUnion ==
    base_class = "FeinCMSDocument" =>
    \A i \in 1..Len(calls) : calls[i].regions = DeclaringRegions(calls[i].type)

\* a content type declared in both regions was created for both regions
C2_Witness ==
    /\ base_class = "FeinCMSDocument"
    /\ pc = "done"
    /\ \E i \in 1..Len(calls) :
           /\ {o[1] : o \in Occurrences(calls[i].type)} = {1, 2}
           /\ calls[i].regions = {"main", "sidebar"}

\* C3: the category and the extra kwargs of a content type, in the registry
\* once the merge is over and in the create_content_type call, are those of
\* its first declaration in region-then-category-then-type order.
C3_FirstDeclarationWins ==
    base_class = "FeinCMSDocument" =>
    /\ pc \in {"create", "done"} =>
           \A i \in 1..Len(types_to_register) :
               LET o == FirstOccurrence(types_to_register[i].type)
                   cat == types_by_regions[o[1]][2][o[2]]
               IN  /\ types_to_register[i].category = cat[1]
                   /\ types_to_register[i].kwargs = EntryKwargs(cat[2][o[3]])
    /\ \A i \in 1..Len(calls) :
           LET o == FirstOccurrence(calls[i].type)
               cat == types_by_regions[o[1]][2][o[2]]
           IN  /\ calls[i].optgroup = cat[1]
               /\ calls[i].kwargs = EntryKwargs(cat[2][o[3]])

\* Text is declared first as a bare type without category and later as a
\* (type, kwargs) tuple under "Media" in the other region; it was created
\* without category and without kwargs, for both regions.
C3_Witness ==
    /\ base_class = "FeinCMSDocument"
    /\ pc = "done"
    /\ \E o \in Occurrences("Text") :
           /\ o # FirstOccurrence("Text")
           /\ o[1] = 2
           /\ types_by_regions[o[1]][2][o[2]][1] = "Media"
           /\ types_by_regions[o[1]][2][o[2]][2][o[3]].form = "tuple"
    /\ \E i \in 1..Len(calls) :
           /\ calls[i].type = "Text"
           /\ calls[i].optgroup = None
           /\ calls[i].kwargs = {}
           /\ calls[i].regions = {"main", "sidebar"}

\* C4: create_content_type is called for the content types in the order of
\* their first declarations, and only when every region has been merged.
C4_FirstEncounterOrder ==
    base_class = "FeinCMSDocument" =>
    /\ \A i, j \in 1..Len(calls) :
           i < j => Before(FirstOccurrence(calls[i].type),
                           FirstOccurrence(calls[j].type))
    /\ calls # <<>> =>
           /\ pc \in {"create", "done"}
           /\ \A t \in DeclaredTypes : Registered(types_to_register, t)
           /\ \A i \in 1..Len(types_to_register) :
                  types_to_register[i].regions =
                      DeclaringRegions(types_to_register[i].type)
    /\ pc = "done" => {calls[i].type : i \in 1..Len(calls)} = DeclaredTypes

\* Image is declared in the first region and Text in the second: Image was
\* created first, Text second, and the registration has returned.
C4_Witness ==
    /\ base_class = "FeinCMSDocument"
    /\ pc = "done"
    /\ Len(calls) = 2
    /\ calls[1].type = "Image"
    /\ calls[2].type = "Text"
    /\ FirstOccurrence("Image")[1] = 1
    /\ FirstOccurrence("Text")[1] = 2

(***************************************************************************)
(* The names bound in the Document's module.                               *)
(***************************************************************************)
\* sys.modules as it was when the current run of the registration started
PriorModules == IF pass <= 1 THEN InitModules ELSE first_pass_modules

TheModule == DocModule(feincms_model)

\* the name the registration binds the class of the i-th call under: the
\* name of the generated class (feincmstools/models.py, line 52), or
\* '%s%s' % (cls.__name__, content_type.__name__) (base.py, line 55)
BoundName(i) ==
    IF base_class = "LumpyContent" THEN feincms_model \o calls[i].type
    ELSE calls[i].result.name

\* the class of the first call of this run that is bound under name n
FirstResult(n) ==
    calls[CHOOSE i \in 1..Len(calls) :
              BoundName(i) = n /\ \A j \in 1..(i - 1) : BoundName(j) # n].result

\* C5: a name bound in a module keeps its value in every step of the
\* registration, and from the second run of the registration of a Document
\* class on, which runs to its end, the modules are as the first run left
\* them.
C5_NeverOverwrites ==
    /\ [][\A m \in Modules : \A n \in DOMAIN sys_modules[m] :
              n \in DOMAIN sys_modules'[m] /\ sys_modules'[m][n] = sys_modules[m][n]]_vars
    /\ [](pass >= 2 => sys_modules = first_pass_modules)
    /\ [](pass >= 2 /\ pc \in {"create", "lumpy"} => ENABLED Next)

\* the second run has returned; it created a class whose name the first run
\* had bound to the class it created
C5_Witness ==
    /\ pass = 2
    /\ pc = "done"
    /\ \E i \in 1..Len(calls) :
           /\ BoundName(i) \in DOMAIN sys_modules[TheModule]
           /\ sys_modules[TheModule][BoundName(i)].created = 1
           /\ calls[i].result.created = 2

\* C6 as stated: every class the registration has created is bound in the
\* Document's module under DocumentClassName + ContentTypeClassName, unless
\* that name was bound before.
C6_DocPlusTypeName ==
    \A i \in 1..Len(calls) :
        LET n == feincms_model \o calls[i].type
        IN  /\ n \in DOMAIN sys_modules[TheModule]
            /\ n \notin DOMAIN PriorModules[TheModule] =>
                   sys_modules[TheModule][n].model = calls[i].type

\* C6 amended: create_content_types binds every class it has created under
\* the class's own name, which is the class name the hook returns and, when
\* the hook returns None, the content type's name: with the hook of
\* FeinCMSDocument that is DocumentClassName + ContentTypeClassName with
\* USE_LEGACY_TABLE_NAMES on and ContentTypeClassName with it off.
\* LumpyContent._register binds it under DocumentClassName +
\* ContentTypeClassName. A name bound before keeps its value, and nothing
\* else is bound, in this module or another.
C6_BoundUnderClassName ==
    /\ \A i \in 1..Len(calls) :
           LET n == BoundName(i)
           IN  /\ n \in DOMAIN sys_modules[TheModule]
               /\ sys_modules[TheModule][n] =
                      IF n \in DOMAIN PriorModules[TheModule]
                      THEN PriorModules[TheModule][n]
                      ELSE FirstResult(n)
               /\ n = IF base_class = "LumpyContent"
                         \/ (hook = "default" /\ USE_LEGACY_TABLE_NAMES)
                      THEN feincms_model \o calls[i].type
                      ELSE IF hook = "default" THEN calls[i].type
                      ELSE calls[i].class_name
    /\ DOMAIN sys_modules[TheModule] =
           DOMAIN PriorModules[TheModule] \cup {BoundName(i) : i \in 1..Len(calls)}
    /\ \A m \in Modules \ {TheModule} : sys_modules[m] = InitModules[m]

\* Page was registered with USE_LEGACY_TABLE_NAMES off: the class made for
\* Image is bound in pages.models as Image, PageImage is not bound, and Text
\* is still the abstract content type defined there.
C6_Witness ==
    /\ pc = "done"
    /\ base_class = "FeinCMSDocument"
    /\ feincms_model = "Page"
    /\ hook = "default"
    /\ ~USE_LEGACY_TABLE_NAMES
    /\ {calls[i].type : i \in 1..Len(calls)} = {"Text", "Image"}
    /\ "Image" \in DOMAIN sys_modules["pages.models"]
    /\ sys_modules["pages.models"]["Image"].document = "Page"
    /\ "PageImage" \notin DOMAIN sys_modules["pages.models"]
    /\ sys_modules["pages.models"]["Text"].document = None

(***************************************************************************)
(* The template resolution and the rendering of a chunk.                   *)
(***************************************************************************)
\* the j-th candidate path of the i-th ancestor the walk of the chunk's class
\* yields, for region
Candidate(i, j, region) ==
    LET base == BasesThatAreContentTypes(bases, chunk.klass)[i]
        dir == "content_types/" \o AppLabel(base) \o "/" \o ModelName(base) \o "/"
    IN  CASE j = 1 -> dir \o AppLabel(chunk.klass) \o "_" \o ModelName(chunk.klass)
                          \o "_" \o region \o ".html"
          [] j = 2 -> dir \o ModelName(chunk.klass) \o "_" \o region \o ".html"
          [] j = 3 -> dir \o region \o ".html"
          [] j = 4 -> dir \o "render.html"

CandidateIndexes ==
    (1..Len(BasesThatAreContentTypes(bases, chunk.klass))) \X (1..4)

\* the candidates for region that exist in the template backend
Existing(region) ==
    {ij \in CandidateIndexes : Candidate(ij[1], ij[2], region) \in templates}

\* C7: _find_render_template_path returns the first candidate that exists,
\* the ancestors taken in the order of the walk and the four patterns of an
\* ancestor in their order, and None exactly when no candidate exists; when
\* render.html of appx/a is the only template, it is returned.
C7_FirstExistingCandidate ==
    outcome.op = "find" =>
        /\ outcome.result = None <=> Existing(outcome.region) = {}
        /\ \A ij \in Existing(outcome.region) :
               (\A o \in Existing(outcome.region) : o = ij \/ Before(<<ij[1], ij[2], 0>>, <<o[1], o[2], 0>>))
                   => outcome.result = Candidate(ij[1], ij[2], outcome.region)
        /\ (templates = {"content_types/appx/a/render.html"}
                /\ \E ij \in CandidateIndexes :
                       BasesThatAreContentTypes(bases, chunk.klass)[ij[1]] = "A")
               => outcome.result = "content_types/appx/a/render.html"

\* the chunk's class is C(B, A) in region main; the only templates are the
\* render.html of B and the region template of A: B comes first in the walk
\* and its fallback is returned.
C7_Witness ==
    /\ outcome.op = "find"
    /\ outcome.region = "main"
    /\ bases["C"] = <<"B", "A">>
    /\ bases["B"] = <<"Content">>
    /\ templates = {"content_types/appx/b/render.html", "content_types/appx/a/main.html"}
    /\ outcome.result = "content_types/appx/b/render.html"

\* the walks of the classes of bs, one after the other
RECURSIVE WalksOf(_)
WalksOf(bs) ==
    IF bs = <<>> THEN <<>>
    ELSE BasesThatAreContentTypes(bases, Head(bs)) \o WalksOf(Tail(bs))

\* C8: the walk of klass yields first the direct bases of klass that are
\* Content subclasses other than Content, in the declared order, then the
\* whole walk of each of them in the same order; it yields neither Content
\* nor klass, and for the chain A -> B -> C it yields B, then A.
C8_DirectBasesThenAncestors ==
    outcome.op = "walk" =>
        LET klass == outcome.klass
            result == outcome.result
            direct == SelectSeq(bases[klass],
                          LAMBDA b : b # "Content" /\ IsContentSubclass(bases, b))
        IN  /\ Len(result) >= Len(direct)
            /\ SubSeq(result, 1, Len(direct)) = direct
            /\ SubSeq(result, Len(direct) + 1, Len(result)) = WalksOf(direct)
            /\ \A i \in 1..Len(result) : result[i] \notin {"Content", klass}
            /\ (klass = "C" /\ bases["C"] = <<"B">> /\ bases["B"] = <<"A">>
                    /\ bases["A"] = <<"Content">>)
                   => result = <<"B", "A">>

\* D lists C and B, which both list A: the walk of D yields C and B, then
\* the walk of C and the walk of B.
C8_Witness ==
    /\ outcome.op = "walk"
    /\ outcome.klass = "D"
    /\ bases["D"] = <<"C", "B">>
    /\ bases["C"] = <<"A", "Mixin">>
    /\ bases["B"] = <<"A">>
    /\ bases["A"] = <<"Content">>
    /\ outcome.result = <<"C", "B", "A", "A">>

\* C9 as stated: whenever no candidate render path exists in the template
\* backend, render raises NotImplementedError.
C9_RaisesWhenNoCandidate ==
    (outcome.op = "render" /\ Existing(chunk.region) = {})
        => outcome.raised = "NotImplementedError"

\* C9 amended: render raises NotImplementedError exactly when the chunk has
\* no render_template, set on its class or found when it was instantiated,
\* and no candidate render path exists; the error then lists every
\* candidate, four for each ancestor the walk yields, in order, and the
\* rendering backend is not called.
C9_RaisesWithEveryCandidate ==
    outcome.op = "render" =>
        /\ outcome.raised = "NotImplementedError"
               <=> (chunk.render_template = None /\ Existing(chunk.region) = {})
        /\ outcome.raised = "NotImplementedError" =>
               /\ ~outcome.backend_called
               /\ Len(outcome.tried) =
                      4 * Len(BasesThatAreContentTypes(bases, chunk.klass))
               /\ \A ij \in CandidateIndexes :
                      outcome.tried[4 * (ij[1] - 1) + ij[2]] =
                          Candidate(ij[1], ij[2], chunk.region)

\* the chunk's class is C(B, A) with B a Content subclass; a template exists
\* but at no candidate path; render raised and listed the eight candidates
C9_Witness ==
    /\ outcome.op = "render"
    /\ outcome.raised = "NotImplementedError"
    /\ templates # {}
    /\ Len(outcome.tried) = 8
    /\ outcome.tried[1] = "content_types/appx/b/appz_c_" \o chunk.region \o ".html"
    /\ outcome.tried[8] = "content_types/appx/a/render.html"

\* C10 as stated: render without a request raises KeyError in every state
\* of the chunk.
C10_KeyErrorAlways ==
    (outcome.op = "render" /\ ~outcome.with_request) => outcome.raised = "KeyError"

\* C10 amended: render without a request never calls the rendering backend
\* and never goes on with a default request; it raises KeyError when the
\* chunk has a render template (its own or a candidate that exists) and
\* NotImplementedError when it has none.
C10_FailsBeforeBackend ==
    (outcome.op = "render" /\ ~outcome.with_request) =>
        /\ ~outcome.backend_called
        /\ outcome.raised =
               IF chunk.render_template # None \/ Existing(chunk.region) # {}
               THEN "KeyError"
               ELSE "NotImplementedError"

\* the chunk found its render template when it was instantiated; render was
\* called without a request and raised KeyError
C10_Witness ==
    /\ outcome.op = "render"
    /\ ~outcome.with_request
    /\ chunk.render_template \in templates
    /\ chunk.render_template # CustomTemplate
    /\ outcome.raised = "KeyError"
    /\ ~outcome.backend_called

\* C11: in every successful render the context handed to the rendering
\* backend binds 'content' to the chunk itself, whatever context the caller
\* passed and whatever mapping extra_context returned.
C11_ContentIsChunk ==
    (outcome.op = "render" /\ outcome.raised = None) =>
        outcome.context["content"] = "self"

(***************************************************************************)
(* The view-backed content and the reusable content types.                 *)
(***************************************************************************)
\* path is module + "." + name for a module that can be imported and a name
\* the module defines
Resolves(path) ==
    \E m \in DOMAIN ViewModules : \E n \in DOMAIN ViewModules[m] :
        path = m \o <<".">> \o n

\* the view a path that resolves names
ResolvedView(path) ==
    LET mn == CHOOSE mn \in {<<m, n>> : m \in DOMAIN ViewModules,
                                        n \in UNION {DOMAIN ViewModules[k] :
                                                        k \in DOMAIN ViewModules}} :
                  /\ mn[2] \in DOMAIN ViewModules[mn[1]]
                  /\ path = mn[1] \o <<".">> \o mn[2]
    IN  ViewModules[mn[1]][mn[2]]

\* the error the view named by path raises when called, None when it returns
ViewError(path, with_request) ==
    CASE ResolvedView(path) = "raises" -> "ValueError"
      [] ResolvedView(path) = "needs_request" /\ ~with_request -> "AttributeError"
      [] OTHER -> None

\* C12: when resolving the view or calling it raises, ViewContent.render
\* returns a placeholder string and raises nothing with settings.DEBUG off,
\* and lets the original error through with settings.DEBUG on; when nothing
\* raises it returns the content of the response when the response has one
\* and the response itself otherwise.
C12_PlaceholderOrReraise ==
    outcome.op = "view_render" =>
        LET path == outcome.path
            error == IF ~Resolves(path) THEN "ImproperlyConfigured"
                     ELSE ViewError(path, outcome.with_request)
        IN  IF error # None
            THEN IF outcome.debug
                 THEN outcome.raised = error /\ outcome.returned = None
                 ELSE /\ outcome.raised = None
                      /\ outcome.returned \in {"<p>Content could not be found.</p>",
                                               "<p>Error rendering content.</p>"}
            ELSE /\ outcome.raised = None
                 /\ outcome.returned =
                        IF ResolvedView(path) = "raw" THEN "raw markup"
                        ELSE "response body"

\* with settings.DEBUG off, render of a.y without a request: the view raised
\* and render returned the placeholder
C12_Witness ==
    /\ outcome.op = "view_render"
    /\ ~outcome.debug
    /\ outcome.path = <<"a", ".", "y">>
    /\ ~outcome.with_request
    /\ outcome.raised = None
    /\ outcome.returned = "<p>Error rendering content.</p>"

\* what the class statement of a reusable content type sets as its concrete
\* model: its own concrete_model when the body sets one, else that of the
\* first base that has one
EffectiveConcreteModel(bs, attrs) ==
    IF "concrete_model" \in DOMAIN attrs THEN attrs.concrete_model
    ELSE IF \E i \in 1..Len(bs) : "concrete_model" \in DOMAIN bs[i].attrs
    THEN bs[CHOOSE i \in 1..Len(bs) :
                /\ "concrete_model" \in DOMAIN bs[i].attrs
                /\ \A j \in 1..(i - 1) : "concrete_model" \notin DOMAIN bs[j].attrs
           ].attrs.concrete_model
    ELSE None

\* C13 as stated: a reusable content type an application defines with no
\* concrete_model, own or inherited, raises ImproperlyConfigured, and a view
\* path that cannot be resolved surfaces ImproperlyConfigured to the caller
\* of get_view_from_path and of render, whatever settings.DEBUG is.
C13_AlwaysSurfaced ==
    /\ (outcome.op = "define" /\ outcome.attrs.__module__ # "feincmstools.models"
            /\ EffectiveConcreteModel(outcome.bases, outcome.attrs) = None
            /\ \A i \in 1..Len(outcome.bases) :
                   "concrete_model" \notin DOMAIN outcome.bases[i].attrs)
           => outcome.raised = "ImproperlyConfigured"
    /\ (outcome.op \in {"get_view", "view_render"}
            /\ \E i \in 1..Len(outcome.path) : outcome.path[i] = "."
            /\ ~Resolves(outcome.path))
           => outcome.raised = "ImproperlyConfigured"

\* C13 amended: the class statement of a reusable content type outside
\* feincmstools.models, none of whose bases is a reusable content type of
\* an application, raises ImproperlyConfigured exactly when it has no
\* concrete model; get_view_from_path raises ImproperlyConfigured exactly
\* for the paths that do not resolve, whatever settings.DEBUG is; render
\* lets that error through with settings.DEBUG on and returns
\* '<p>Content could not be found.</p>' with settings.DEBUG off.
C13_SurfacedExceptRenderNonDebug ==
    /\ (outcome.op = "define" /\ outcome.attrs.__module__ # "feincmstools.models"
            /\ \A i \in 1..Len(outcome.bases) :
                   \/ outcome.bases[i].metaclass # "ReusableBase"
                   \/ outcome.bases[i].module = "feincmstools.models")
           => (outcome.raised = "ImproperlyConfigured"
                   <=> EffectiveConcreteModel(outcome.bases, outcome.attrs) = None)
    /\ outcome.op = "get_view"
           => (outcome.raised = "ImproperlyConfigured" <=> ~Resolves(outcome.path))
    /\ outcome.op = "get_view"
           => (outcome.raised = None <=> Resolves(outcome.path))
    /\ (outcome.op = "view_render" /\ ~Resolves(outcome.path))
           => IF outcome.debug
              THEN outcome.raised = "ImproperlyConfigured"
              ELSE /\ outcome.raised = None
                   /\ outcome.returned = "<p>Content could not be found.</p>"

\* get_view_from_path of a.z, a name the module a does not define, raised
\* ImproperlyConfigured with settings.DEBUG off
C13_Witness ==
    /\ outcome.op = "get_view"
    /\ ~outcome.debug
    /\ outcome.path = <<"a", ".", "z">>
    /\ outcome.raised = "ImproperlyConfigured"
    /\ outcome.stage = "getattr"

(***************************************************************************)
(* The regions of a Document class.                                        *)
(***************************************************************************)
\* the keys of the region descriptors on the class, in their order
RegisteredKeys ==
    IF all_regions.given
    THEN [i \in 1..Len(all_regions.value) |-> all_regions.value[i].key]
    ELSE <<>>

\* every content-type registration in steps comes after a registration of
\* regions or templates
RegionsBeforeContentTypes ==
    \A i \in 1..Len(steps) :
        steps[i].call \in {"create_content_types", "create_content_type"} =>
            \E j \in 1..(i - 1) :
                steps[j].call \in {"register_regions", "register_templates", "template"}

\* C14 as stated: when _register has completed on a concrete class that
\* declares regions, the region descriptors on the class have the declared
\* keys in the declared order, feincms_templates set or not, and the
\* content types were registered after the regions or templates.
C14_DeclaredRegionsAlways ==
    /\ (pc = "done" /\ ~abstract /\ base_class = "FeinCMSDocument"
            /\ feincms_regions.given)
           => RegisteredKeys = feincms_regions.value
    /\ (pc = "done" /\ ~abstract /\ base_class = "LumpyContent")
           => RegisteredKeys = default_regions
    /\ RegionsBeforeContentTypes

\* C14 amended: once _register_templates_or_regions has run on a concrete
\* FeinCMSDocument subclass, the region descriptors have the keys of
\* feincms_regions in declared order when feincms_templates is empty or
\* None; when feincms_templates is set, feincms_regions is ignored with a
\* warning, register_regions is not called and the descriptors are those of
\* the templates' regions. A concrete LumpyContent subclass has a descriptor
\* for each of its default_regions, in order. An abstract class registers
\* nothing, and content types are registered only after the regions or
\* templates.
C14_RegionsUnlessTemplates ==
    /\ (pc # "idle" /\ ~abstract /\ base_class = "FeinCMSDocument") =>
           IF feincms_templates.given /\ feincms_templates.value # <<>>
           THEN /\ {RegisteredKeys[i] : i \in 1..Len(RegisteredKeys)} =
                       UNION {{t.regions[i] : i \in 1..Len(t.regions)} :
                                 t \in {feincms_templates.value[k] :
                                           k \in 1..Len(feincms_templates.value)}}
                /\ \A i \in 1..Len(steps) : steps[i].call # "register_regions"
                /\ (\E i \in 1..Len(steps) : steps[i].call = "warn")
                       <=> (feincms_regions.given /\ feincms_regions.value # <<>>)
           ELSE IF feincms_regions.given /\ feincms_regions.value # <<>>
           THEN /\ RegisteredKeys = feincms_regions.value
                /\ steps[1] = [call |-> "register_regions",
                               args |-> feincms_regions.value]
           ELSE ~all_regions.given
    /\ (pc # "idle" /\ ~abstract /\ base_class = "LumpyContent")
           => RegisteredKeys = default_regions
    /\ abstract => (steps = <<>> /\ ~all_regions.given)
    /\ RegionsBeforeContentTypes

\* a concrete FeinCMSDocument subclass that declares sidebar, then main, and
\* no templates: _register has completed, the descriptors are sidebar, then
\* main, and a content type was registered after them
C14_Witness ==
    /\ base_class = "FeinCMSDocument"
    /\ pc = "done"
    /\ ~abstract
    /\ ~feincms_templates.given
    /\ feincms_regions.given
    /\ feincms_regions.value = <<"sidebar", "main">>
    /\ RegisteredKeys = <<"sidebar", "main">>
    /\ calls # <<>>
    /\ Len(steps) = 2
    /\ steps[2].call = "create_content_types"

\* C18: on a registered Document class, get_used_content_types returns
\* exactly the content types create_content_types has registered for the
\* class, the keys of its registry, also when a content type is declared as
\* a (type, kwargs) pair.
C18_UsedAreRegistered ==
    (outcome.op = "get_used" /\ pc = "done" /\ ~abstract) =>
        /\ outcome.raised = None
        /\ outcome.result =
               {types_to_register[i].type : i \in 1..Len(types_to_register)}

(***************************************************************************)
(* The template paths cached on a chunk instance.                          *)
(***************************************************************************)
\* C15 as stated: once __init__ has resolved the paths of a chunk, no change
\* of the template backend and no render changes the chunk's
\* render_template and admin_template, and no render probes the backend
\* again, also when __init__ found no render template.
C15_ComputedOnce ==
    /\ [][(chunk.exists /\ outcome'.op # "init") => chunk' = chunk]_vars
    /\ [](outcome.op = "render" => ~outcome.probed)

\* C15 amended: once __init__ has resolved the paths of a chunk, no change
\* of the template backend and no render changes the chunk's
\* render_template and admin_template. A render of a chunk whose
\* render_template is set does not probe the backend and hands the cached
\* path to the rendering backend, whether the template still exists or not;
\* a render of a chunk whose render_template is None probes the backend
\* again, on every call, and uses the first candidate that exists then.
C15_CachedUnlessNone ==
    /\ [][(chunk.exists /\ outcome'.op # "init") => chunk' = chunk]_vars
    /\ [](outcome.op = "render" =>
              /\ outcome.probed <=> chunk.render_template = None
              /\ (outcome.backend_called /\ chunk.render_template # None)
                     => outcome.template = chunk.render_template
              /\ (outcome.backend_called /\ chunk.render_template = None)
                     => /\ outcome.template \in templates
                        /\ \E ij \in Existing(chunk.region) :
                               /\ outcome.template =
                                      Candidate(ij[1], ij[2], chunk.region)
                               /\ \A o \in Existing(chunk.region) :
                                      o = ij \/ Before(<<ij[1], ij[2], 0>>,
                                                       <<o[1], o[2], 0>>))

\* the chunk found its render template when it was instantiated; the
\* template was removed since and a better candidate deployed; render handed
\* the cached path to the backend, which did not find it
C15_Witness ==
    /\ outcome.op = "render"
    /\ chunk.exists
    /\ chunk.render_template = "content_types/appx/a/render.html"
    /\ templates = {"content_types/appx/a/main.html"}
    /\ chunk.region = "main"
    /\ ~outcome.probed
    /\ outcome.backend_called
    /\ outcome.template = chunk.render_template
    /\ outcome.raised = "TemplateDoesNotExist"

(***************************************************************************)
(* The admin includes of the Document classes.                             *)
(***************************************************************************)
\* D.feincms_item_editor_includes['head'] as an attribute lookup on the
\* Document class doc finds it, empty when there is none
HeadOf(inc, doc) ==
    IF IncludesHolder(inc, doc) = None THEN {}
    ELSE inc[IncludesHolder(inc, doc)].head

\* C16: the instantiation of a chunk adds the admin path it found to the
\* head includes of the Document class that owns the chunk, and changes
\* nothing else: no admin path, no addition, and the head includes of every
\* other Document class stay as they were. So the head includes of a
\* Document class gain exactly the admin paths its own chunks found.
C16_OwnIncludesOnly ==
    [][outcome'.op = "init" =>
          \A d \in Documents :
              HeadOf(editor_includes', d) =
                  HeadOf(editor_includes, d)
                      \cup (IF d = chunk'.parent_class /\ chunk'.admin_template # None
                            THEN {chunk'.admin_template} ELSE {})]_vars

(***************************************************************************)
(* The walk of a hierarchy with shared ancestors.                          *)
(***************************************************************************)
AllClasses == DOMAIN RootBases \cup {Classes[i] : i \in 1..Len(Classes)}

\* the chains of direct-base links that lead from klass to x through
\* Content subclasses other than Content
PathsTo(klass, x) ==
    {p \in UNION {[1..n -> {c \in AllClasses :
                               c # "Content" /\ IsContentSubclass(bases, c)}] :
                     n \in 1..Len(Classes)} :
        /\ p[Len(p)] = x
        /\ \E j \in 1..Len(bases[klass]) : bases[klass][j] = p[1]
        /\ \A i \in 1..(Len(p) - 1) :
               \E j \in 1..Len(bases[p[i]]) : bases[p[i]][j] = p[i + 1]}

\* C17: whatever walks came before, the walk of klass ends and yields each
\* class as many times as there are chains of direct-base links from klass
\* to it through Content subclasses other than Content: a class reached
\* along two chains is yielded twice, and a class that is no such ancestor
\* never.
C17_OncePerPath ==
    outcome.op = "walk" =>
        \A x \in AllClasses :
            Cardinality({i \in 1..Len(outcome.result) : outcome.result[i] = x})
                = Cardinality(PathsTo(outcome.klass, x))

\* D lists C and B, C lists B and A, and B lists A: three chains lead from D
\* to A and two to B, and the walk of D yields A three times and B twice
C17_Witness ==
    /\ outcome.op = "walk"
    /\ outcome.klass = "D"
    /\ bases["D"] = <<"C", "B">>
    /\ bases["C"] = <<"B", "A">>
    /\ bases["B"] = <<"A">>
    /\ bases["A"] = <<"Content">>
    /\ Cardinality(PathsTo("D", "A")) = 3
    /\ outcome.result = <<"C", "B", "B", "A", "A", "A">>

====
